---- MODULE Spec2Model ----
(***************************************************************************)
(* Model of the webext-storage sync engine:                                *)
(*   components/webext-storage/src/sync/incoming.rs                        *)
(*   components/webext-storage/src/sync/outgoing.rs                        *)
(* The three SQL tables are the state; every public function of the two    *)
(* files is one action, run inside its transaction.                        *)
(***************************************************************************)
EXTENDS Integers, Sequences, FiniteSets, TLC

\* ------------------------------------------------------------------------
\* Bounds of the model
\* ------------------------------------------------------------------------
MaxBatch == 2
MaxMutations == 2
MaxPasses == 2
MaxStaged == 2
MaxRetryStaged == 3
MaxRetryMutations == 1
MaxCalls == 3

ExtIds == {"e1", "e2"}
ServerGuids == {"g1", "g2"}
RandomGuids == {"r1", "r2"}
Keys == {"k1", "k2"}
Vals == {"a", "b"}

\* ------------------------------------------------------------------------
\* JSON values, their text form, SQL NULL
\* ------------------------------------------------------------------------
\* SQL NULL in a TEXT column; Option<JsonMap>
NULL == [text |-> "NULL"]
None == [some |-> FALSE]
Some(m) == [some |-> TRUE, v |-> m]

\* serde_json::Map<String, Value> with string values
JsonMap == UNION {[D -> Vals] : D \in SUBSET Keys}

m_k1a == [k \in {"k1"} |-> "a"]
m_k2b == [k \in {"k2"} |-> "b"]
m_k1a_k2a == [k \in {"k1", "k2"} |-> "a"]
m_k1a_k2b == [k \in {"k1", "k2"} |-> IF k = "k1" THEN "a" ELSE "b"]

\* serde_json::Value: an object, or a value of another JSON type
ValueObject(m) == [kind |-> "Object", map |-> m]
ValueString(s) == [kind |-> "String", str |-> s]

\* A TEXT column: the serialization of a JSON value, or text that is not JSON
TextOf(v) == [text |-> "json", value |-> v]
NotJson == [text |-> "garbage"]

\* serde_json::Value::to_string
to_string(v) == TextOf(v)

\* serde_json::Value::as_str: Some(&str) for a JSON string, None otherwise.
\* Bound as a SQL parameter, None is NULL.
as_str(v) == IF v.kind = "String" THEN [text |-> "raw", str |-> v.str] ELSE NULL

\* serde_json::from_str
from_str(s) == IF s.text = "json" THEN [ok |-> TRUE, value |-> s.value]
               ELSE [ok |-> FALSE]

\* a mutant: text that is not a JSON object is read as an empty object
json_map_from_row_mutant(col) ==
    IF col = NULL THEN None
    ELSE LET r == from_str(col)
         IN IF r.ok /\ r.value.kind = "Object" THEN Some(r.value.map)
            ELSE Some([k \in {} |-> "a"])

json_map_from_row(col) ==
    IF col = NULL THEN None
    ELSE LET r == from_str(col)
         IN IF r.ok /\ r.value.kind = "Object" THEN Some(r.value.map) ELSE None

\* ------------------------------------------------------------------------
\* ServerTimestamp::from_float_seconds. An f64 is NaN, an infinity, or a
\* number of seconds given in units of 1/TsUnits second; i64 is modelled
\* with I64Bits bits.
\* ------------------------------------------------------------------------
TsUnits == 10000
I64Bits == 5
MillisPerSecond == 1000

NaN == [kind |-> "nan"]
PosInf == [kind |-> "inf"]
NegInf == [kind |-> "neginf"]
Num(n) == [kind |-> "num", n |-> n]

i64_max_value == 2 ^ (I64Bits - 1) - 1
\* i64::max_value() as f64: the maximum is not an f64, the cast gives 2^63
i64_max_as_f64 == 2 ^ (I64Bits - 1)

\* f64::round of n/d: to the nearest integer, halves away from zero
f64_round(n, d) ==
    IF n >= 0 THEN (2 * n + d) \div (2 * d)
    ELSE 0 - ((2 * (0 - n) + d) \div (2 * d))

\* (ts * 1000.0).round(): NaN and the infinities stay what they are
rounded_millis(t) ==
    IF t.kind = "num" THEN Num(f64_round(t.n * MillisPerSecond, TsUnits)) ELSE t

\* a mutant: a negative number of milliseconds is not illegal
from_float_seconds_mutant(t) ==
    LET rf == rounded_millis(t)
    IN IF rf.kind # "num" \/ rf.n >= i64_max_as_f64 THEN 0 ELSE rf.n

from_float_seconds(t) ==
    LET rf == rounded_millis(t)
    IN IF rf.kind # "num" \/ rf.n < 0 \/ rf.n >= i64_max_as_f64 THEN 0
       ELSE rf.n

\* the f64 values of the model: no f64 rounds to i64::max_value() itself
SlackTs == 30
MinTs == 0 - SlackTs
MaxTs == (i64_max_as_f64 * TsUnits) \div MillisPerSecond + SlackTs
FloatInputs ==
    {NaN, PosInf, NegInf}
    \cup {Num(n) : n \in {x \in MinTs..MaxTs :
                            f64_round(x * MillisPerSecond, TsUnits) # i64_max_value}}

\* ------------------------------------------------------------------------
\* Tables
\* ------------------------------------------------------------------------
SyncStatusNew == 1
SyncStatusNormal == 2

\* what the key/value API writes, what the server sends
LocalInputs == {m_k1a_k2a, m_k1a}
IncomingInputs == {m_k2b, m_k1a}
IncomingData == {NULL, NotJson, to_string(ValueString("a"))}
                    \cup {to_string(ValueObject(m)) : m \in IncomingInputs}
LastModified == {1}

ServerPayload == [guid : ServerGuids, ext_id : ExtIds, data : IncomingData,
                  deleted : BOOLEAN, last_modified : LastModified]
\* the batches of the model: every kind of data for e1 under both guids, a
\* record or a tombstone for e2
IncomingPayloads ==
    {p \in ServerPayload :
        /\ p.deleted = (p.data = NULL)
        /\ p.ext_id = "e2" =>
              p.guid = "g2" /\ p.data \in {NULL, to_string(ValueObject(m_k2b))}}

VARIABLES local, mirror, staging, pc, incoming, actions, outgoing, last,
          nMutations, nPasses, nStaged, racing, pin, pout, nCalls, ts, stamp

vars == <<local, mirror, staging, pc, incoming, actions, outgoing, last,
          nMutations, nPasses, nStaged, racing, pin, pout, nCalls, ts,
          stamp>>

db == [local |-> local, mirror |-> mirror, staging |-> staging]

\* rusqlite Transaction dropped without commit: DropBehavior::Rollback
tx_drop(before, cur) == before
tx_commit(before, cur) == cur

RECURSIVE SeqWithout(_, _)
SeqWithout(s, g) ==
    IF s = <<>> THEN <<>>
    ELSE IF Head(s).guid = g THEN SeqWithout(Tail(s), g)
    ELSE <<Head(s)>> \o SeqWithout(Tail(s), g)

\* INSERT OR REPLACE INTO temp.moz_extension_data_staging: guid is the key;
\* the replaced row is deleted and the new one gets a new rowid
staging_replace(st, row) == Append(SeqWithout(st, row.guid), row)

\* a mutant: only the guid is a key of the mirror
mirror_replace_mutant(mi, row) == {r \in mi : r.guid # row.guid} \cup {row}

\* REPLACE INTO moz_extension_data_mirror: guid is the primary key and
\* ext_id is unique; rows conflicting on either are deleted
mirror_replace(mi, row) ==
    {r \in mi : r.guid # row.guid /\ r.ext_id # row.ext_id} \cup {row}

\* ------------------------------------------------------------------------
\* stage_incoming
\* ------------------------------------------------------------------------
RECURSIVE stage_loop(_, _, _)
stage_loop(d, bsos, n) ==
    IF n = 0 THEN d
    ELSE LET p == stage_loop(d, bsos, n - 1)
             bso == bsos[n]
         IN [p EXCEPT !.staging = staging_replace(@,
                [guid |-> bso.guid, ext_id |-> bso.ext_id, data |-> bso.data,
                 server_modified |-> bso.last_modified])]

\* a mutant: the rows staged before the signal stay staged
stage_incoming_mutant(d, bsos, interruptedAt) ==
    IF interruptedAt \in 1..Len(bsos)
    THEN [db |-> stage_loop(d, bsos, interruptedAt - 1), result |-> "Interrupted"]
    ELSE [db |-> stage_loop(d, bsos, Len(bsos)), result |-> "Ok"]

\* interruptedAt = 0: the signal is never raised; i > 0: it is raised at
\* the i-th call of err_if_interrupted
stage_incoming(d, bsos, interruptedAt) ==
    IF interruptedAt \in 1..Len(bsos)
    THEN [db |-> tx_drop(d, stage_loop(d, bsos, interruptedAt - 1)),
          result |-> "Interrupted"]
    ELSE [db |-> tx_commit(d, stage_loop(d, bsos, Len(bsos))), result |-> "Ok"]

\* ------------------------------------------------------------------------
\* get_incoming
\* ------------------------------------------------------------------------
IncomingOnly(i) == [variant |-> "IncomingOnly", incoming |-> i]
LocalOnly(i, l) == [variant |-> "LocalOnly", incoming |-> i, local |-> l]
NotLocal(i, m) == [variant |-> "NotLocal", incoming |-> i, mirror |-> m]
Everywhere(i, m, l) ==
    [variant |-> "Everywhere", incoming |-> i, mirror |-> m, local |-> l]

\* a mutant: the mirror is joined on the extension id
mirror_joined_mutant(mi, s) == {r \in mi : r.ext_id = s.ext_id}

\* LEFT JOIN moz_extension_data_mirror m ON m.guid = s.guid
mirror_joined(mi, s) == {r \in mi : r.guid = s.guid}

get_incoming_from_row(d, s) ==
    LET incoming_ == json_map_from_row(s.data)
        m_rows == mirror_joined(d.mirror, s)
        mirror_exists == m_rows # {}
        local_exists == s.ext_id \in DOMAIN d.local
        m_data == (CHOOSE r \in m_rows : TRUE).data
        l_data == d.local[s.ext_id].data
        state ==
            CASE ~local_exists /\ ~mirror_exists -> IncomingOnly(incoming_)
              [] local_exists /\ ~mirror_exists ->
                    LocalOnly(incoming_, json_map_from_row(l_data))
              [] ~local_exists /\ mirror_exists ->
                    NotLocal(incoming_, json_map_from_row(m_data))
              [] local_exists /\ mirror_exists ->
                    Everywhere(incoming_, json_map_from_row(m_data),
                               json_map_from_row(l_data))
    IN [item |-> [guid |-> s.guid, ext_id |-> s.ext_id], state |-> state]

get_incoming(d) ==
    [i \in 1..Len(d.staging) |-> get_incoming_from_row(d, d.staging[i])]

\* ------------------------------------------------------------------------
\* IncomingAction, merge, plan_incoming
\* ------------------------------------------------------------------------
DeleteLocally == [action |-> "DeleteLocally"]
DeleteRemotely == [action |-> "DeleteRemotely"]
TakeRemote(m) == [action |-> "TakeRemote", data |-> m]
Merge(m) == [action |-> "Merge", data |-> m]
Same == [action |-> "Same"]

\* field-level merge of one key; "absent" when the key is dropped
merge_key(k, other, ours, parent) ==
    LET o == IF k \in DOMAIN other THEN other[k] ELSE "absent"
        u == IF k \in DOMAIN ours THEN ours[k] ELSE "absent"
    IN IF parent.some /\ k \in DOMAIN parent.v
       THEN LET pv == parent.v[k]
            IN IF o = pv THEN u ELSE o
       ELSE IF o # "absent" THEN o ELSE u

merge(other, ours, parent) ==
    IF other = ours THEN Same
    ELSE LET all == DOMAIN other \cup DOMAIN ours
             kept == {k \in all : merge_key(k, other, ours, parent) # "absent"}
             result == [k \in kept |-> merge_key(k, other, ours, parent)]
         IN IF result = other THEN TakeRemote(result) ELSE Merge(result)

\* a mutant: a remote tombstone no longer wins over local data
plan_everywhere_mutant(s) ==
    CASE s.incoming.some /\ s.local.some /\ s.mirror.some ->
            merge(s.incoming.v, s.local.v, Some(s.mirror.v))
      [] s.incoming.some /\ s.local.some /\ ~s.mirror.some ->
            merge(s.incoming.v, s.local.v, None)
      [] s.incoming.some /\ ~s.local.some -> TakeRemote(s.incoming.v)
      [] ~s.incoming.some -> IF s.local.some THEN Same ELSE DeleteLocally

\* the arm for IncomingState::Everywhere
plan_everywhere(s) ==
    CASE s.incoming.some /\ s.local.some /\ s.mirror.some ->
            merge(s.incoming.v, s.local.v, Some(s.mirror.v))
      [] s.incoming.some /\ s.local.some /\ ~s.mirror.some ->
            merge(s.incoming.v, s.local.v, None)
      [] s.incoming.some /\ ~s.local.some -> TakeRemote(s.incoming.v)
      [] ~s.incoming.some -> DeleteLocally

\* the arm for IncomingState::LocalOnly: match (incoming, local); its second
\* and third patterns bind the tuple's fields the other way round than
\* their comments say
plan_local_only(s) ==
    CASE s.incoming.some /\ s.local.some -> merge(s.incoming.v, s.local.v, None)
      [] s.incoming.some /\ ~s.local.some -> DeleteLocally
      [] ~s.incoming.some /\ s.local.some -> TakeRemote(s.local.v)
      [] ~s.incoming.some /\ ~s.local.some -> Same

\* a mutant: a tombstone for a record deleted locally is sent back
plan_not_local_mutant(s) ==
    IF s.incoming.some THEN TakeRemote(s.incoming.v) ELSE DeleteRemotely

\* the arm for IncomingState::NotLocal
plan_not_local(s) ==
    IF s.incoming.some THEN TakeRemote(s.incoming.v) ELSE Same

\* the arm for IncomingState::IncomingOnly
plan_incoming_only(s) ==
    IF s.incoming.some THEN TakeRemote(s.incoming.v) ELSE DeleteLocally

plan_incoming(s) ==
    CASE s.variant = "Everywhere" -> plan_everywhere(s)
      [] s.variant = "LocalOnly" -> plan_local_only(s)
      [] s.variant = "NotLocal" -> plan_not_local(s)
      [] s.variant = "IncomingOnly" -> plan_incoming_only(s)

\* ------------------------------------------------------------------------
\* apply_actions
\* ------------------------------------------------------------------------
\* a mutant: DELETE FROM moz_extension_data, without the WHERE
local_delete_mutant(lo, e) == <<>>

\* DELETE FROM moz_extension_data WHERE ext_id = :ext_id
local_delete(lo, e) == [x \in DOMAIN lo \ {e} |-> lo[x]]

\* UPDATE moz_extension_data SET ... WHERE ext_id = :ext_id
local_update(lo, e, row) == IF e \in DOMAIN lo THEN [lo EXCEPT ![e] = row] ELSE lo

apply_delete_remotely(lo, e) ==
    local_update(lo, e,
        [data |-> NULL, sync_status |-> SyncStatusNew,
         sync_change_counter |->
            IF e \in DOMAIN lo THEN lo[e].sync_change_counter ELSE 0])

\* :data is bound to serde_json::Value::Object(data).as_str()
apply_take_remote(lo, e, data) ==
    local_update(lo, e,
        [data |-> as_str(ValueObject(data)), sync_status |-> SyncStatusNormal,
         sync_change_counter |-> 0])

\* a mutant: the merged record is no longer marked as changed
apply_merge_mutant(lo, e, data) ==
    local_update(lo, e,
        [data |-> to_string(ValueObject(data)), sync_status |-> SyncStatusNormal,
         sync_change_counter |-> 0])

\* :data is bound to serde_json::Value::Object(data).to_string()
apply_merge(lo, e, data) ==
    local_update(lo, e,
        [data |-> to_string(ValueObject(data)), sync_status |-> SyncStatusNormal,
         sync_change_counter |->
            IF e \in DOMAIN lo THEN lo[e].sync_change_counter + 1 ELSE 0])

apply_action(lo, item, action) ==
    LET e == item.ext_id
    IN CASE action.action = "DeleteLocally" -> local_delete(lo, e)
         [] action.action = "DeleteRemotely" -> apply_delete_remotely(lo, e)
         [] action.action = "TakeRemote" -> apply_take_remote(lo, e, action.data)
         [] action.action = "Merge" -> apply_merge(lo, e, action.data)
         [] action.action = "Same" -> lo

RECURSIVE apply_loop(_, _, _)
apply_loop(d, acts, n) ==
    IF n = 0 THEN d
    ELSE LET p == apply_loop(d, acts, n - 1)
         IN [p EXCEPT !.local = apply_action(@, acts[n].item, acts[n].action)]

\* a mutant: the rows written before the signal stay written
apply_actions_mutant(d, acts, interruptedAt) ==
    IF interruptedAt \in 1..Len(acts)
    THEN [db |-> apply_loop(d, acts, interruptedAt - 1), result |-> "Interrupted"]
    ELSE [db |-> apply_loop(d, acts, Len(acts)), result |-> "Ok"]

apply_actions(d, acts, interruptedAt) ==
    IF interruptedAt \in 1..Len(acts)
    THEN [db |-> tx_drop(d, apply_loop(d, acts, interruptedAt - 1)),
          result |-> "Interrupted"]
    ELSE [db |-> tx_commit(d, apply_loop(d, acts, Len(acts))), result |-> "Ok"]

\* ------------------------------------------------------------------------
\* get_outgoing
\* ------------------------------------------------------------------------
\* the order in which the rows of moz_extension_data are scanned
ExtOrder == <<"e1", "e2">>

\* a mutant: a record without data is not sent as a deletion
OutgoingInfo_from_row_mutant(d, e, rnd) ==
    LET joined == {r \in d.mirror : r.ext_id = e}
        guid == IF joined # {} THEN (CHOOSE r \in joined : TRUE).guid ELSE rnd[e]
        raw_data == d.local[e].data
    IN [state |-> [ext_id |-> e,
                   change_counter |-> d.local[e].sync_change_counter],
        payload |-> [ext_id |-> e, guid |-> guid, data |-> raw_data,
                     deleted |-> FALSE, last_modified |-> 0]]

\* rnd[e] is what SyncGuid::random returns for the row of e
OutgoingInfo_from_row(d, e, rnd) ==
    LET joined == {r \in d.mirror : r.ext_id = e}
        guid == IF joined # {} THEN (CHOOSE r \in joined : TRUE).guid ELSE rnd[e]
        raw_data == d.local[e].data
    IN [state |-> [ext_id |-> e,
                   change_counter |-> d.local[e].sync_change_counter],
        payload |-> [ext_id |-> e, guid |-> guid, data |-> raw_data,
                     deleted |-> (raw_data = NULL), last_modified |-> 0]]

RECURSIVE get_outgoing_rows(_, _, _)
get_outgoing_rows(d, rnd, n) ==
    IF n = 0 THEN <<>>
    ELSE LET e == ExtOrder[n]
             rest == get_outgoing_rows(d, rnd, n - 1)
         IN IF e \in DOMAIN d.local /\ d.local[e].sync_change_counter > 0
            THEN Append(rest, OutgoingInfo_from_row(d, e, rnd))
            ELSE rest

get_outgoing(d, rnd) == get_outgoing_rows(d, rnd, Len(ExtOrder))

\* ------------------------------------------------------------------------
\* record_uploaded
\* ------------------------------------------------------------------------
\* a mutant: the counter is reset instead of decremented
RECURSIVE record_counters_mutant(_, _, _)
record_counters_mutant(d, items, n) ==
    IF n = 0 THEN d
    ELSE LET p == record_counters_mutant(d, items, n - 1)
             e == items[n].state.ext_id
         IN IF e \in DOMAIN p.local
            THEN [p EXCEPT !.local[e].sync_change_counter = 0,
                           !.local[e].sync_status = SyncStatusNormal]
            ELSE p

RECURSIVE record_counters(_, _, _)
record_counters(d, items, n) ==
    IF n = 0 THEN d
    ELSE LET p == record_counters(d, items, n - 1)
             e == items[n].state.ext_id
         IN IF e \in DOMAIN p.local
            THEN [p EXCEPT !.local[e].sync_change_counter =
                                @ - items[n].state.change_counter,
                           !.local[e].sync_status = SyncStatusNormal]
            ELSE p

RECURSIVE fold_staging(_, _, _)
fold_staging(mi, st, n) ==
    IF n = 0 THEN mi
    ELSE mirror_replace(fold_staging(mi, st, n - 1),
            [guid |-> st[n].guid, ext_id |-> st[n].ext_id,
             server_modified |-> st[n].server_modified, data |-> st[n].data])

\* a mutant: the staging area is folded and not cleared
record_staging_uncleared(d) ==
    [d EXCEPT !.mirror = fold_staging(d.mirror, d.staging, Len(d.staging))]

\* a mutant: the staging area is cleared without being folded
record_staging_mutant(d) == [d EXCEPT !.staging = <<>>]

record_staging(d) ==
    [d EXCEPT !.mirror = fold_staging(d.mirror, d.staging, Len(d.staging)),
              !.staging = <<>>]

\* a mutant: what was uploaded is not written to the mirror
record_mirror_mutant(d, items, n) == d

RECURSIVE record_mirror(_, _, _)
record_mirror(d, items, n) ==
    IF n = 0 THEN d
    ELSE LET p == record_mirror(d, items, n - 1)
         IN [p EXCEPT !.mirror = mirror_replace(@,
                [guid |-> items[n].payload.guid, ext_id |-> items[n].state.ext_id,
                 server_modified |-> items[n].payload.last_modified,
                 data |-> items[n].payload.data])]

\* a mutant: the rows written before the signal stay written
record_uploaded_mutant(d, items, interruptedAt) ==
    LET n == Len(items)
    IN IF interruptedAt \in 1..n
       THEN [db |-> record_counters(d, items, interruptedAt - 1),
             result |-> "Interrupted"]
       ELSE LET folded == record_staging(record_counters(d, items, n))
            IN IF interruptedAt \in (n + 1)..(2 * n)
               THEN [db |-> record_mirror(folded, items, interruptedAt - n - 1),
                     result |-> "Interrupted"]
               ELSE [db |-> record_mirror(folded, items, n), result |-> "Ok"]

\* the signal is checked Len(items) times in the first loop and Len(items)
\* times in the second
record_uploaded(d, items, interruptedAt) ==
    LET n == Len(items)
    IN IF interruptedAt \in 1..n
       THEN [db |-> tx_drop(d, record_counters(d, items, interruptedAt - 1)),
             result |-> "Interrupted"]
       ELSE LET folded == record_staging(record_counters(d, items, n))
            IN IF interruptedAt \in (n + 1)..(2 * n)
               THEN [db |-> tx_drop(d, record_mirror(folded, items,
                                                     interruptedAt - n - 1)),
                     result |-> "Interrupted"]
               ELSE [db |-> tx_commit(d, record_mirror(folded, items, n)),
                     result |-> "Ok"]

\* ------------------------------------------------------------------------
\* The key/value API (api::set and the removal of all keys): every local
\* mutation increments the change counter
\* ------------------------------------------------------------------------
api_set(lo, e, data) ==
    IF e \in DOMAIN lo
    THEN [lo EXCEPT ![e].data = data,
                    ![e].sync_change_counter = @ + 1]
    ELSE [x \in DOMAIN lo \cup {e} |->
            IF x = e THEN [data |-> data, sync_status |-> SyncStatusNew,
                           sync_change_counter |-> 1]
            ELSE lo[x]]

\* what the model's extensions store: e2 only ever one value
LocalData(e) ==
    IF e = "e1" THEN {to_string(ValueObject(m)) : m \in LocalInputs} \cup {NULL}
    ELSE {to_string(ValueObject(m_k1a))}

\* ------------------------------------------------------------------------
\* State machine: one sync pass at a time (do_sync), the key/value API in
\* between the transactions of the pass.
\* racing[e]: the number of API mutations of e since the last get_outgoing
\* ------------------------------------------------------------------------
Batches == UNION {[1..n -> IncomingPayloads] : n \in 0..MaxBatch}

\* last: the last call, its arguments, its result and the tables before it
\* (recorded for the three calls that write inside a transaction)
NoOp == [op |-> "init", result |-> "Ok", before |-> [local |-> <<>>,
         mirror |-> {}, staging |-> <<>>], items |-> <<>>, interruptedAt |-> 0]

Init ==
    /\ local = <<>>
    /\ mirror = {}
    /\ staging = <<>>
    /\ pc = "idle"
    /\ incoming = <<>>
    /\ actions = <<>>
    /\ outgoing = <<>>
    /\ last = NoOp
    /\ nMutations = 0
    /\ nPasses = 0
    /\ nStaged = 0
    /\ racing = [e \in ExtIds |-> 0]
    /\ pin = IncomingOnly(None)
    /\ pout = [action |-> "none"]
    /\ nCalls = 0
    /\ ts = NaN
    /\ stamp = None

ApiMutate ==
    /\ nMutations < MaxMutations
    /\ \E e \in ExtIds : \E data \in LocalData(e) :
          /\ data = NULL => e \in DOMAIN local
          /\ local' = api_set(local, e, data)
          /\ racing' = IF pc = "collected" THEN [racing EXCEPT ![e] = @ + 1]
                        ELSE racing
          /\ last' = [NoOp EXCEPT !.op = "api_set"]
    /\ nMutations' = nMutations + 1
    /\ UNCHANGED <<mirror, staging, pc, incoming, actions, outgoing, nPasses,
                   nStaged, pin, pout,
                   nCalls,
                   ts, stamp>>

StageIncoming ==
    /\ pc = "idle"
    /\ nPasses < MaxPasses
    /\ \E bsos \in Batches : \E i \in 0..Len(bsos) :
          LET r == stage_incoming(db, bsos, i)
          IN /\ nStaged + Len(bsos) <= MaxStaged
             /\ nStaged' = nStaged + Len(bsos)
             /\ staging' = r.db.staging
             /\ local' = r.db.local
             /\ mirror' = r.db.mirror
             /\ pc' = IF r.result = "Ok" THEN "staged" ELSE "idle"
             /\ last' = [op |-> "stage_incoming", result |-> r.result,
                         before |-> db, interruptedAt |-> i,
                         items |-> IF r.result = "Ok" THEN bsos ELSE <<>>]
    /\ nPasses' = nPasses + 1
    /\ UNCHANGED <<incoming, actions, outgoing, nMutations, racing, pin, pout,
                   nCalls,
                   ts, stamp>>

GetIncoming ==
    /\ pc = "staged"
    /\ incoming' = get_incoming(db)
    /\ pc' = "fetched"
    /\ last' = [NoOp EXCEPT !.op = "get_incoming"]
    /\ UNCHANGED <<local, mirror, staging, actions, outgoing, nMutations,
                   nPasses, nStaged, racing, pin, pout,
                   nCalls,
                   ts, stamp>>

PlanIncoming ==
    /\ pc = "fetched"
    /\ actions' = [i \in 1..Len(incoming) |->
                     [item |-> incoming[i].item,
                      action |-> plan_incoming(incoming[i].state)]]
    /\ pc' = "planned"
    /\ last' = [NoOp EXCEPT !.op = "plan_incoming"]
    /\ UNCHANGED <<local, mirror, staging, incoming, outgoing, nMutations,
                   nPasses, nStaged, racing, pin, pout,
                   nCalls,
                   ts, stamp>>

ApplyActions ==
    /\ pc = "planned"
    /\ \E i \in 0..Len(actions) :
          LET r == apply_actions(db, actions, i)
          IN /\ local' = r.db.local
             /\ mirror' = r.db.mirror
             /\ staging' = r.db.staging
             /\ pc' = IF r.result = "Ok" THEN "applied" ELSE "idle"
             /\ last' = [op |-> "apply_actions", result |-> r.result,
                         before |-> db, items |-> actions, interruptedAt |-> i]
    /\ incoming' = <<>>
    /\ actions' = <<>>
    /\ UNCHANGED <<outgoing, nMutations, nPasses, nStaged, racing, pin, pout,
                   nCalls,
                   ts, stamp>>

\* the guids SyncGuid::random can return: any guid not in use
GuidsInUse == {r.guid : r \in mirror} \cup {staging[i].guid : i \in DOMAIN staging}
NeedsGuid == {e \in DOMAIN local : /\ local[e].sync_change_counter > 0
                                   /\ ~\E r \in mirror : r.ext_id = e}
RandomChoices ==
    {f \in [NeedsGuid -> RandomGuids \ GuidsInUse] :
        \A x, y \in NeedsGuid : x # y => f[x] # f[y]}

GetOutgoing ==
    /\ pc = "applied"
    /\ \E rnd \in RandomChoices : outgoing' = get_outgoing(db, rnd)
    /\ pc' = "collected"
    /\ racing' = [e \in ExtIds |-> 0]
    /\ last' = [NoOp EXCEPT !.op = "get_outgoing"]
    /\ UNCHANGED <<local, mirror, staging, incoming, actions, nMutations,
                   nPasses, nStaged, pin, pout,
                   nCalls,
                   ts, stamp>>

RecordUploaded ==
    /\ pc = "collected"
    /\ \E i \in 0..(2 * Len(outgoing)) :
          LET r == record_uploaded(db, outgoing, i)
          IN /\ local' = r.db.local
             /\ mirror' = r.db.mirror
             /\ staging' = r.db.staging
             /\ last' = [op |-> "record_uploaded", result |-> r.result,
                         before |-> db, items |-> outgoing, interruptedAt |-> i]
    /\ pc' = "idle"
    /\ outgoing' = <<>>
    /\ UNCHANGED <<incoming, actions, nMutations, nPasses, nStaged, racing,
                   pin, pout,
                   nCalls,
                   ts, stamp>>

Next ==
    \/ ApiMutate
    \/ StageIncoming
    \/ GetIncoming
    \/ PlanIncoming
    \/ ApplyActions
    \/ GetOutgoing
    \/ RecordUploaded

Spec == Init /\ [][Next]_vars

\* ------------------------------------------------------------------------
\* plan_incoming as a pure function: every IncomingState is planned once
\* ------------------------------------------------------------------------
OptionJsonMap == {None} \cup {Some(m) : m \in JsonMap}

IncomingStates ==
    {IncomingOnly(i) : i \in OptionJsonMap}
    \cup {LocalOnly(i, l) : i \in OptionJsonMap, l \in OptionJsonMap}
    \cup {NotLocal(i, m) : i \in OptionJsonMap, m \in OptionJsonMap}
    \cup {Everywhere(i, m, l) : i \in OptionJsonMap, m \in OptionJsonMap,
                                l \in OptionJsonMap}

InitPlan ==
    /\ local = <<>>
    /\ mirror = {}
    /\ staging = <<>>
    /\ pc = "idle"
    /\ incoming = <<>>
    /\ actions = <<>>
    /\ outgoing = <<>>
    /\ last = NoOp
    /\ nMutations = 0
    /\ nPasses = 0
    /\ nStaged = 0
    /\ racing = [e \in ExtIds |-> 0]
    /\ pin \in IncomingStates
    /\ pout = [action |-> "none"]
    /\ nCalls = 0
    /\ ts = NaN
    /\ stamp = None

PlanOne ==
    /\ pout.action = "none"
    /\ pout' = plan_incoming(pin)
    /\ UNCHANGED <<local, mirror, staging, pc, incoming, actions, outgoing,
                   last, nMutations, nPasses, nStaged, racing, pin,
                   nCalls,
                   ts, stamp>>

NextPlan == PlanOne

SpecPlan == InitPlan /\ [][NextPlan]_vars

Planned == pout.action # "none"

\* ------------------------------------------------------------------------
\* The functions of the engine called in any order: nothing in incoming.rs
\* or outgoing.rs checks that a pass is in progress or at which step it is.
\* outgoing holds what the last get_outgoing returned until it is recorded.
\* ------------------------------------------------------------------------
CallPayloads == {p \in IncomingPayloads :
                    /\ p.guid = "g1"
                    /\ p.data \in {NULL, to_string(ValueObject(m_k2b))}}
CallBatches == UNION {[1..n -> CallPayloads] : n \in 0..1}

ActionChoices == {DeleteLocally, DeleteRemotely, Same,
                  TakeRemote(m_k2b), Merge(m_k2b)}
\* the action lists of the model are about e1; the record of e2 is the one
\* no action is about
ActionLists ==
    UNION {[1..n -> [item : [guid : {"g1"}, ext_id : {"e1"}],
                     action : ActionChoices]] : n \in 1..MaxBatch}

CallStageIncoming ==
    /\ nCalls < MaxCalls
    /\ \E bsos \in CallBatches : \E i \in 0..Len(bsos) :
          LET r == stage_incoming(db, bsos, i)
          IN /\ staging' = r.db.staging
             /\ local' = r.db.local
             /\ mirror' = r.db.mirror
             /\ last' = [op |-> "stage_incoming", result |-> r.result,
                         before |-> db, interruptedAt |-> i,
                         items |-> IF r.result = "Ok" THEN bsos ELSE <<>>]
    /\ nCalls' = nCalls + 1
    /\ UNCHANGED <<pc, incoming, actions, outgoing, nMutations, nPasses,
                   nStaged, racing, pin, pout,
                   ts, stamp>>

CallApplyActions ==
    /\ nCalls < MaxCalls
    /\ \E acts \in ActionLists : \E i \in 0..Len(acts) :
          LET r == apply_actions(db, acts, i)
          IN /\ local' = r.db.local
             /\ mirror' = r.db.mirror
             /\ staging' = r.db.staging
             /\ last' = [op |-> "apply_actions", result |-> r.result,
                         before |-> db, items |-> acts, interruptedAt |-> i]
    /\ nCalls' = nCalls + 1
    /\ UNCHANGED <<pc, incoming, actions, outgoing, nMutations, nPasses,
                   nStaged, racing, pin, pout,
                   ts, stamp>>

CallGetOutgoing ==
    /\ \E rnd \in RandomChoices : outgoing' = get_outgoing(db, rnd)
    /\ last' = [NoOp EXCEPT !.op = "get_outgoing"]
    /\ UNCHANGED <<local, mirror, staging, pc, incoming, actions, nMutations,
                   nPasses, nStaged, racing, pin, pout, nCalls,
                   ts, stamp>>

CallRecordUploaded ==
    /\ nCalls < MaxCalls
    /\ \E i \in 0..(2 * Len(outgoing)) :
          LET r == record_uploaded(db, outgoing, i)
          IN /\ local' = r.db.local
             /\ mirror' = r.db.mirror
             /\ staging' = r.db.staging
             /\ last' = [op |-> "record_uploaded", result |-> r.result,
                         before |-> db, items |-> outgoing, interruptedAt |-> i]
    /\ outgoing' = <<>>
    /\ nCalls' = nCalls + 1
    /\ UNCHANGED <<pc, incoming, actions, nMutations, nPasses, nStaged,
                   racing, pin, pout,
                   ts, stamp>>

NextCalls ==
    \/ ApiMutate
    \/ CallStageIncoming
    \/ CallApplyActions
    \/ CallGetOutgoing
    \/ CallRecordUploaded

SpecCalls == Init /\ [][NextCalls]_vars

\* ------------------------------------------------------------------------
\* do_sync: a whole pass that nothing interrupts (NeverInterrupts), the
\* key/value API between the passes
\* ------------------------------------------------------------------------
do_sync_choices(d) ==
    LET inUse == {r.guid : r \in d.mirror}
                    \cup {d.staging[i].guid : i \in DOMAIN d.staging}
        needs == {e \in DOMAIN d.local :
                    /\ d.local[e].sync_change_counter > 0
                    /\ ~\E r \in d.mirror : r.ext_id = e}
    IN {f \in [needs -> RandomGuids \ inUse] :
            \A x, y \in needs : x # y => f[x] # f[y]}

do_sync_incoming(d, bsos) ==
    LET staged == stage_incoming(d, bsos, 0).db
        got == get_incoming(staged)
        acts == [i \in 1..Len(got) |->
                    [item |-> got[i].item,
                     action |-> plan_incoming(got[i].state)]]
    IN [db |-> apply_actions(staged, acts, 0).db, actions |-> acts]

\* a mutant: the pass ends after get_outgoing, the upload is not recorded
do_sync_mutant(d, bsos, rnd) ==
    LET inc == do_sync_incoming(d, bsos)
    IN [db |-> inc.db, actions |-> inc.actions,
        outgoing |-> get_outgoing(inc.db, rnd)]

do_sync(d, bsos, rnd) ==
    LET inc == do_sync_incoming(d, bsos)
        out == get_outgoing(inc.db, rnd)
    IN [db |-> record_uploaded(inc.db, out, 0).db, actions |-> inc.actions,
        outgoing |-> out]

\* the batches a pass receives: those of Batches, and a record for e1 that
\* has every key of what the API stores and more
SyncPayloads ==
    IncomingPayloads
    \cup {[guid |-> "g1", ext_id |-> "e1", deleted |-> FALSE,
           last_modified |-> 1, data |-> to_string(ValueObject(m_k1a_k2b))]}
SyncBatches == UNION {[1..n -> SyncPayloads] : n \in 0..MaxBatch}

DoSync ==
    /\ nPasses < MaxPasses
    /\ \E bsos \in SyncBatches :
          /\ nStaged + Len(bsos) <= MaxStaged
          /\ nStaged' = nStaged + Len(bsos)
          /\ \E rnd \in do_sync_choices(do_sync_incoming(db, bsos).db) :
                LET r == do_sync(db, bsos, rnd)
                IN /\ local' = r.db.local
                   /\ mirror' = r.db.mirror
                   /\ staging' = r.db.staging
                   /\ actions' = r.actions
                   /\ outgoing' = r.outgoing
                   /\ last' = [op |-> "do_sync", result |-> "Ok",
                               before |-> db, items |-> bsos,
                               interruptedAt |-> 0]
    /\ nPasses' = nPasses + 1
    /\ UNCHANGED <<pc, incoming, nMutations, racing, pin, pout, nCalls,
                   ts, stamp>>

NextSync ==
    \/ ApiMutate
    \/ DoSync

SpecSync == Init /\ [][NextSync]_vars

\* ------------------------------------------------------------------------
\* A pass that the signal cancels at one of its per-row checks, followed by
\* the same pass run again from the beginning with the same batch
\* ------------------------------------------------------------------------
PassSteps == {"stage_incoming", "apply_actions", "record_uploaded"}

\* the number of checks of the signal in a step of the pass
do_sync_checks(d, bsos, rnd, step) ==
    LET inc == do_sync_incoming(d, bsos)
    IN CASE step = "stage_incoming" -> Len(bsos)
         [] step = "apply_actions" -> Len(inc.actions)
         [] step = "record_uploaded" -> 2 * Len(get_outgoing(inc.db, rnd))

\* the tables after the pass was cancelled at the i-th check of the step
do_sync_interrupted(d, bsos, rnd, step, i) ==
    LET staged == stage_incoming(d, bsos, 0).db
        inc == do_sync_incoming(d, bsos)
    IN CASE step = "stage_incoming" -> stage_incoming(d, bsos, i).db
         [] step = "apply_actions" -> apply_actions(staged, inc.actions, i).db
         [] step = "record_uploaded" ->
                record_uploaded(inc.db, get_outgoing(inc.db, rnd), i).db

\* the tables a cancelled pass can leave, with the step and the check at
\* which it was cancelled
interrupted_passes(d, bsos) ==
    LET rnds == do_sync_choices(do_sync_incoming(d, bsos).db)
    IN UNION {{[step |-> step, i |-> i,
                db |-> do_sync_interrupted(d, bsos, rnd, step, i)] :
                  i \in 1..do_sync_checks(d, bsos, rnd, step)} :
                step \in PassSteps, rnd \in rnds}

RetriedSync ==
    /\ nPasses < MaxPasses
    /\ \E bsos \in SyncBatches :
          /\ nStaged + Len(bsos) <= MaxRetryStaged
          /\ nStaged' = nStaged + Len(bsos)
          /\ \E mid \in interrupted_passes(db, bsos) :
             \E rnd2 \in do_sync_choices(do_sync_incoming(mid.db, bsos).db) :
                LET r == do_sync(mid.db, bsos, rnd2)
                IN /\ local' = r.db.local
                   /\ mirror' = r.db.mirror
                   /\ staging' = r.db.staging
                   /\ actions' = r.actions
                   /\ outgoing' = r.outgoing
                   /\ last' = [op |-> "retried_sync", result |-> "Ok",
                               before |-> db, items |-> bsos,
                               interruptedAt |-> mid.i, step |-> mid.step]
    /\ nPasses' = nPasses + 1
    /\ UNCHANGED <<pc, incoming, nMutations, racing, pin, pout, nCalls,
                   ts, stamp>>

\* the key/value API before the passes of this specification
RetryMutate ==
    /\ nMutations < MaxRetryMutations
    /\ ApiMutate

NextRetry ==
    \/ RetryMutate
    \/ DoSync
    \/ RetriedSync

SpecRetry == Init /\ [][NextRetry]_vars

\* ------------------------------------------------------------------------
\* get_incoming as a function of the tables: one staged row, with every
\* kind of text in the data column of the staged row, of the mirror row and
\* of the local row
\* ------------------------------------------------------------------------
ColData == {NULL, NotJson, to_string(ValueString("a")),
            to_string(ValueObject(m_k1a)), to_string(ValueObject(m_k2b))}

ClassifyStaging ==
    {<<[guid |-> "g1", ext_id |-> "e1", data |-> x, server_modified |-> 1]>> :
        x \in ColData}
ClassifyMirror ==
    {{}} \cup {{[guid |-> "g1", ext_id |-> "e1", server_modified |-> 1,
                 data |-> x]} : x \in ColData}
         \cup {{[guid |-> "g2", ext_id |-> "e1", server_modified |-> 1,
                 data |-> NotJson]}}
ClassifyLocal ==
    {<<>>} \cup {[e \in {"e1"} |-> [data |-> x, sync_status |-> SyncStatusNormal,
                                    sync_change_counter |-> 0]] : x \in ColData}
           \cup {[e \in {"e2"} |-> [data |-> NotJson, sync_status |-> SyncStatusNew,
                                    sync_change_counter |-> 1]]}

\* a mutant: the staged rows are consumed by the query
get_incoming_call_mutant(d) ==
    [db |-> [d EXCEPT !.staging = <<>>], result |-> get_incoming(d)]

\* get_incoming only SELECTs: the tables are what they were
get_incoming_call(d) == [db |-> d, result |-> get_incoming(d)]

InitClassify ==
    /\ local \in ClassifyLocal
    /\ mirror \in ClassifyMirror
    /\ staging \in ClassifyStaging
    /\ pc = "staged"
    /\ incoming = <<>>
    /\ actions = <<>>
    /\ outgoing = <<>>
    /\ last = NoOp
    /\ nMutations = 0
    /\ nPasses = 0
    /\ nStaged = 0
    /\ racing = [e \in ExtIds |-> 0]
    /\ pin = IncomingOnly(None)
    /\ pout = [action |-> "none"]
    /\ nCalls = 0
    /\ ts = NaN
    /\ stamp = None

Classify ==
    /\ pc \in {"staged", "fetched"}
    /\ nCalls < MaxCalls
    /\ LET r == get_incoming_call(db)
       IN /\ incoming' = r.result
          /\ local' = r.db.local
          /\ mirror' = r.db.mirror
          /\ staging' = r.db.staging
    /\ pc' = "fetched"
    /\ nCalls' = nCalls + 1
    /\ last' = [NoOp EXCEPT !.op = "get_incoming"]
    /\ UNCHANGED <<actions, outgoing, nMutations, nPasses, nStaged, racing,
                   pin, pout,
                   ts, stamp>>

NextClassify == Classify

SpecClassify == InitClassify /\ [][NextClassify]_vars

\* ------------------------------------------------------------------------
\* A pass with one call of the key/value API between get_incoming and
\* apply_actions: the actions were planned from the tables as they were
\* before the call
\* ------------------------------------------------------------------------
do_sync_raced(d, bsos, e, data, rnd) ==
    LET staged == stage_incoming(d, bsos, 0).db
        acts == do_sync_incoming(d, bsos).actions
        mutated == [staged EXCEPT !.local = api_set(staged.local, e, data)]
        applied == apply_actions(mutated, acts, 0).db
        out == get_outgoing(applied, rnd)
    IN [db |-> record_uploaded(applied, out, 0).db, actions |-> acts,
        outgoing |-> out]

do_sync_raced_choices(d, bsos, e, data) ==
    LET staged == stage_incoming(d, bsos, 0).db
        acts == do_sync_incoming(d, bsos).actions
        mutated == [staged EXCEPT !.local = api_set(staged.local, e, data)]
    IN do_sync_choices(apply_actions(mutated, acts, 0).db)

RacedSync ==
    /\ nPasses < MaxPasses
    /\ nMutations < MaxMutations
    /\ \E bsos \in SyncBatches : \E e \in ExtIds : \E data \in LocalData(e) :
          /\ nStaged + Len(bsos) <= MaxStaged
          /\ nStaged' = nStaged + Len(bsos)
          /\ data = NULL => e \in DOMAIN local
          /\ \E rnd \in do_sync_raced_choices(db, bsos, e, data) :
                LET r == do_sync_raced(db, bsos, e, data, rnd)
                IN /\ local' = r.db.local
                   /\ mirror' = r.db.mirror
                   /\ staging' = r.db.staging
                   /\ actions' = r.actions
                   /\ outgoing' = r.outgoing
                   /\ last' = [op |-> "raced_sync", result |-> "Ok",
                               before |-> db, items |-> bsos,
                               interruptedAt |-> 0,
                               mutated |-> [ext_id |-> e, data |-> data]]
    /\ nPasses' = nPasses + 1
    /\ nMutations' = nMutations + 1
    /\ UNCHANGED <<pc, incoming, racing, pin, pout, nCalls, ts, stamp>>

NextRace ==
    \/ ApiMutate
    \/ DoSync
    \/ RacedSync

SpecRace == Init /\ [][NextRace]_vars

\* ------------------------------------------------------------------------
\* from_float_seconds as a function of its argument
\* ------------------------------------------------------------------------
InitTimestamp ==
    /\ local = <<>>
    /\ mirror = {}
    /\ staging = <<>>
    /\ pc = "idle"
    /\ incoming = <<>>
    /\ actions = <<>>
    /\ outgoing = <<>>
    /\ last = NoOp
    /\ nMutations = 0
    /\ nPasses = 0
    /\ nStaged = 0
    /\ racing = [e \in ExtIds |-> 0]
    /\ pin = IncomingOnly(None)
    /\ pout = [action |-> "none"]
    /\ nCalls = 0
    /\ ts \in FloatInputs
    /\ stamp = None

FromFloatSeconds ==
    /\ ~stamp.some
    /\ stamp' = Some(from_float_seconds(ts))
    /\ UNCHANGED <<local, mirror, staging, pc, incoming, actions, outgoing,
                   last, nMutations, nPasses, nStaged, racing, pin, pout,
                   nCalls, ts>>

NextTimestamp == FromFloatSeconds

SpecTimestamp == InitTimestamp /\ [][NextTimestamp]_vars

\* ------------------------------------------------------------------------
\* Properties
\* ------------------------------------------------------------------------
Rows(seq) == {seq[i] : i \in DOMAIN seq}

\* a later element of the batch is about the same extension
TargetedLater(items, i, e) ==
    \E j \in DOMAIN items : j > i /\ items[j].item.ext_id = e

\* the extension ids get_outgoing selects in the current tables
Selected(e) ==
    \A rnd \in RandomChoices :
        \E j \in DOMAIN get_outgoing(db, rnd) :
            get_outgoing(db, rnd)[j].state.ext_id = e

CommittedApply == last.op = "apply_actions" /\ last.result = "Ok"

\* C1: when the key/value API mutates a record j >= 1 times between
\* get_outgoing (which captured counter k) and record_uploaded, the record's
\* counter after record_uploaded is j = live_before - k, and the record is
\* selected by the next get_outgoing.
C1_RacingMutationSurvives ==
    (last.op = "record_uploaded" /\ last.result = "Ok") =>
        \A i \in DOMAIN last.items :
            LET e == last.items[i].state.ext_id
                k == last.items[i].state.change_counter
            IN racing[e] >= 1 =>
                  /\ e \in DOMAIN local
                  /\ local[e].sync_change_counter = racing[e]
                  /\ local[e].sync_change_counter =
                        last.before.local[e].sync_change_counter - k
                  /\ Selected(e)

C1_Witness ==
    /\ last.op = "record_uploaded"
    /\ last.result = "Ok"
    /\ \E i \in DOMAIN last.items :
          /\ racing[last.items[i].state.ext_id] >= 1
          /\ last.items[i].state.change_counter >= 1
          /\ last.before.local[last.items[i].state.ext_id].sync_change_counter
                > last.items[i].state.change_counter

\* C2: for a LocalOnly state plan_incoming returns merge(incoming, local,
\* None) when both are present, DeleteLocally when only local is present,
\* TakeRemote(incoming) when only incoming is present, Same when neither is.
C2_LocalOnlyTable ==
    (Planned /\ pin.variant = "LocalOnly") =>
        pout = CASE pin.incoming.some /\ pin.local.some ->
                        merge(pin.incoming.v, pin.local.v, None)
                 [] ~pin.incoming.some /\ pin.local.some -> DeleteLocally
                 [] pin.incoming.some /\ ~pin.local.some ->
                        TakeRemote(pin.incoming.v)
                 [] ~pin.incoming.some /\ ~pin.local.some -> Same

C4_NotLocalIncomingOnlyTable ==
    Planned =>
        /\ pin.variant = "NotLocal" =>
              pout = IF pin.incoming.some THEN TakeRemote(pin.incoming.v) ELSE Same
        /\ pin.variant = "IncomingOnly" =>
              pout = IF pin.incoming.some THEN TakeRemote(pin.incoming.v)
                     ELSE DeleteLocally
        /\ pout = DeleteRemotely =>
              /\ pin.variant \in {"Everywhere", "LocalOnly"}
              /\ pin.incoming.some
              /\ pin.local.some

C4_Witness ==
    /\ Planned
    /\ pin.variant = "NotLocal"
    /\ ~pin.incoming.some
    /\ pin.mirror.some
    /\ pout = Same

\* C5: after apply_actions commits TakeRemote{data} for an extension that
\* has a local record, the record holds that data, its status is Normal,
\* its counter is 0 and get_outgoing does not select it.
C5_TakeRemoteStoresData ==
    CommittedApply =>
        \A i \in DOMAIN last.items :
            LET a == last.items[i].action
                e == last.items[i].item.ext_id
                pre == apply_loop(last.before, last.items, i - 1).local
            IN (a.action = "TakeRemote" /\ e \in DOMAIN pre
                    /\ ~TargetedLater(last.items, i, e)) =>
                  /\ e \in DOMAIN local
                  /\ json_map_from_row(local[e].data) = Some(a.data)
                  /\ local[e].sync_status = SyncStatusNormal
                  /\ local[e].sync_change_counter = 0
                  /\ ~Selected(e)

\* C6: after apply_actions commits Merge{data} for an extension that has a
\* local record, the record holds the merged data, its status is Normal and
\* its counter is one more than before the action; the following
\* get_outgoing selects it with a payload carrying the merged data.
C6_MergeStoresAndMarksChanged ==
    CommittedApply =>
        \A i \in DOMAIN last.items :
            LET a == last.items[i].action
                e == last.items[i].item.ext_id
                pre == apply_loop(last.before, last.items, i - 1).local
            IN (a.action = "Merge" /\ e \in DOMAIN pre
                    /\ ~TargetedLater(last.items, i, e)) =>
                  /\ e \in DOMAIN local
                  /\ json_map_from_row(local[e].data) = Some(a.data)
                  /\ local[e].sync_status = SyncStatusNormal
                  /\ local[e].sync_change_counter = pre[e].sync_change_counter + 1
                  /\ \A rnd \in RandomChoices :
                        \E j \in DOMAIN get_outgoing(db, rnd) :
                            LET o == get_outgoing(db, rnd)[j]
                            IN /\ o.state.ext_id = e
                               /\ ~o.payload.deleted
                               /\ json_map_from_row(o.payload.data) = Some(a.data)

C6_Witness ==
    /\ CommittedApply
    /\ \E i \in DOMAIN last.items :
          /\ last.items[i].action.action = "Merge"
          /\ last.items[i].item.ext_id \in DOMAIN last.before.local
          /\ last.items[i].item.ext_id \in DOMAIN local
          /\ local[last.items[i].item.ext_id].sync_change_counter >= 2

\* C7: get_incoming returns one (item, state) per staging row; the variant
\* follows from the presence of a mirror row with the staged guid and of a
\* local row with the staged ext_id, and a present row with NULL data gives
\* the same variant with that field absent.
C7_ClassifiedByPresence ==
    last.op = "get_incoming" =>
        /\ Len(incoming) = Len(staging)
        /\ \A i \in DOMAIN staging :
              LET s == staging[i]
                  st == incoming[i].state
                  m == {r \in mirror : r.guid = s.guid}
                  l == s.ext_id \in DOMAIN local
              IN /\ incoming[i].item = [guid |-> s.guid, ext_id |-> s.ext_id]
                 /\ st.variant = IF l THEN (IF m # {} THEN "Everywhere" ELSE "LocalOnly")
                                 ELSE (IF m # {} THEN "NotLocal" ELSE "IncomingOnly")
                 /\ s.data = NULL => st.incoming = None
                 /\ (l /\ local[s.ext_id].data = NULL) => st.local = None
                 /\ \A r \in m : r.data = NULL => st.mirror = None
                 /\ s.data \in {to_string(ValueObject(x)) : x \in JsonMap} =>
                        st.incoming = Some(json_map_from_row(s.data).v)

C7_Witness ==
    /\ last.op = "get_incoming"
    /\ \E i \in DOMAIN incoming :
          /\ incoming[i].state.variant = "Everywhere"
          /\ incoming[i].state.local = None
          /\ incoming[i].state.incoming # None
          /\ local[incoming[i].item.ext_id].data = NULL

\* C8: when stage_incoming succeeds the staging area holds exactly the
\* batch: one row per guid of the batch, the last payload of a guid winning,
\* and no other row, whatever happened before.
C8_StagingIsBatch ==
    (last.op = "stage_incoming" /\ last.result = "Ok") =>
        LET bsos == last.items
            LastOf(g) == bsos[CHOOSE i \in DOMAIN bsos :
                                /\ bsos[i].guid = g
                                /\ \A j \in DOMAIN bsos : j > i => bsos[j].guid # g]
            guids == {bsos[i].guid : i \in DOMAIN bsos}
        IN /\ Len(staging) = Cardinality(guids)
           /\ Rows(staging) =
                 {[guid |-> g, ext_id |-> LastOf(g).ext_id, data |-> LastOf(g).data,
                   server_modified |-> LastOf(g).last_modified] : g \in guids}

\* C9: when the signal is raised at a check of record_uploaded, in either
\* loop, record_uploaded returns the interrupted error and the local
\* records, the mirror and the staging area are as before the call.
C9_RecordUploadedRollsBack ==
    (last.op = "record_uploaded" /\ last.interruptedAt >= 1) =>
        /\ last.result = "Interrupted"
        /\ local = last.before.local
        /\ mirror = last.before.mirror
        /\ staging = last.before.staging

C9_Witness ==
    /\ last.op = "record_uploaded"
    /\ last.result = "Interrupted"
    /\ last.interruptedAt > Len(last.items)
    /\ last.before.staging # <<>>
    /\ \E i \in DOMAIN last.items : last.items[i].state.change_counter > 0

\* C10: when the signal is raised before an item of apply_actions,
\* apply_actions returns the interrupted error and the local records are as
\* before the call, the actions applied before the signal included.
C10_ApplyActionsRollsBack ==
    (last.op = "apply_actions" /\ last.interruptedAt >= 1) =>
        /\ last.result = "Interrupted"
        /\ local = last.before.local

C10_Witness ==
    /\ last.op = "apply_actions"
    /\ last.result = "Interrupted"
    /\ last.interruptedAt = Len(last.items)
    /\ last.interruptedAt >= 2
    /\ apply_loop(last.before, last.items, last.interruptedAt - 1).local
          # last.before.local

\* C11: when the signal is raised before an item of a non-empty batch,
\* stage_incoming returns the interrupted error and the staging area is as
\* before the call: no payload of the batch is staged.
C11_StageIncomingRollsBack ==
    (last.op = "stage_incoming" /\ last.interruptedAt >= 1) =>
        /\ last.result = "Interrupted"
        /\ staging = last.before.staging
        /\ local = last.before.local
        /\ mirror = last.before.mirror

C11_Witness ==
    /\ last.op = "stage_incoming"
    /\ last.result = "Interrupted"
    /\ last.interruptedAt >= 2
    /\ staging = <<>>

\* C12: after any sequence of API mutations, apply_actions and
\* record_uploaded calls no local record has a negative change counter, and
\* after record_uploaded the counter of an uploaded record is
\* max(0, live_before - k), k being the counter get_outgoing captured.
Max0(n) == IF n > 0 THEN n ELSE 0

C12_CounterNeverNegative ==
    /\ \A e \in DOMAIN local : local[e].sync_change_counter >= 0
    /\ (last.op = "record_uploaded" /\ last.result = "Ok") =>
          \A i \in DOMAIN last.items :
              LET e == last.items[i].state.ext_id
              IN e \in DOMAIN last.before.local =>
                    /\ e \in DOMAIN local
                    /\ local[e].sync_change_counter =
                          Max0(last.before.local[e].sync_change_counter
                                  - last.items[i].state.change_counter)

\* C13: get_outgoing returns exactly one item for every local record whose
\* change counter is positive and none for the others; the item's captured
\* counter is the record's counter, its payload is a deletion without data
\* exactly when the record has no data, else it carries the record's data.
OutgoingOf(e) == {i \in DOMAIN outgoing : outgoing[i].state.ext_id = e}

C13_OutgoingSelection ==
    last.op = "get_outgoing" =>
        \A e \in ExtIds :
            IF e \in DOMAIN local /\ local[e].sync_change_counter > 0
            THEN /\ Cardinality(OutgoingOf(e)) = 1
                 /\ \A i \in OutgoingOf(e) :
                       /\ outgoing[i].state.change_counter =
                             local[e].sync_change_counter
                       /\ outgoing[i].payload.ext_id = e
                       /\ outgoing[i].payload.deleted = (local[e].data = NULL)
                       /\ outgoing[i].payload.data = local[e].data
            ELSE OutgoingOf(e) = {}

C13_Witness ==
    /\ last.op = "get_outgoing"
    /\ \E i \in DOMAIN outgoing :
          /\ outgoing[i].payload.deleted
          /\ outgoing[i].payload.data = NULL
          /\ outgoing[i].state.change_counter = 2

\* a record that is not selected next to one that is
C13_NotSelected ==
    /\ last.op = "get_outgoing"
    /\ outgoing # <<>>
    /\ \E e \in DOMAIN local : local[e].sync_change_counter = 0

\* C14: the guid of an item get_outgoing returns is the guid of the mirror
\* record of its ext_id when there is one; a random guid is synthesized only
\* when no guid exists yet for the ext_id, not when the pass staged an
\* incoming record of that ext_id, which carries a server guid.
C14_GuidOnlyWhenNoneExists ==
    last.op = "get_outgoing" =>
        \A i \in DOMAIN outgoing :
            LET e == outgoing[i].state.ext_id
                g == outgoing[i].payload.guid
                mirrored == {r \in mirror : r.ext_id = e}
            IN IF mirrored # {}
               THEN \E r \in mirrored : r.guid = g
               ELSE ~\E j \in DOMAIN staging : staging[j].ext_id = e

\* C15: the guid of an ext_id is stable: when the mirror has a record of
\* the ext_id before a pass is recorded, the mirror record of the ext_id has
\* the same guid afterwards; when it has none and the pass staged a record
\* of the ext_id, the mirror record has the guid the server sent.
GuidsOf(rows, e) == {r.guid : r \in {x \in rows : x.ext_id = e}}

C15_GuidStable ==
    (last.op = "record_uploaded" /\ last.result = "Ok") =>
        \A e \in ExtIds :
            LET was == GuidsOf(last.before.mirror, e)
                sent == GuidsOf(Rows(last.before.staging), e)
                now == GuidsOf(mirror, e)
            IN /\ was # {} => now = was
               /\ (was = {} /\ sent # {}) => (now # {} /\ now \subseteq sent)

\* C16 as stated: after record_uploaded succeeds the staging area is empty
\* and, for every row staged before the call whose guid and ext_id were not
\* also uploaded, the mirror holds a row with its guid, ext_id,
\* server_modified and data.
MirrorRowOf(s) == [guid |-> s.guid, ext_id |-> s.ext_id,
                   server_modified |-> s.server_modified, data |-> s.data]

Uploaded(items, s) ==
    \E i \in DOMAIN items : \/ items[i].payload.guid = s.guid
                            \/ items[i].state.ext_id = s.ext_id

C16_EveryStagedRowFolded ==
    (last.op = "record_uploaded" /\ last.result = "Ok") =>
        /\ staging = <<>>
        /\ \A s \in Rows(last.before.staging) :
              ~Uploaded(last.items, s) => MirrorRowOf(s) \in mirror

\* C16, amended: ... for every row staged before the call whose guid and
\* ext_id were not also uploaded and whose ext_id no other staged row had,
\* the mirror holds a row with its guid, ext_id, server_modified and data.
OnlyStagedRowOfExt(st, s) == \A t \in Rows(st) : t.ext_id = s.ext_id => t = s

C16_StagedRowFolded ==
    (last.op = "record_uploaded" /\ last.result = "Ok") =>
        /\ staging = <<>>
        /\ \A s \in Rows(last.before.staging) :
              (~Uploaded(last.items, s)
                  /\ OnlyStagedRowOfExt(last.before.staging, s)) =>
                    MirrorRowOf(s) \in mirror

C16_Witness ==
    /\ last.op = "record_uploaded"
    /\ last.result = "Ok"
    /\ last.items # <<>>
    /\ staging = <<>>
    /\ \E s \in Rows(last.before.staging) :
          /\ ~Uploaded(last.items, s)
          /\ OnlyStagedRowOfExt(last.before.staging, s)
          /\ MirrorRowOf(s) \in mirror
          /\ \E r \in last.before.mirror : r.ext_id = s.ext_id /\ r # MirrorRowOf(s)

\* C17: a full pass with an empty incoming batch, for a local record with
\* pending changes that has never been synced, ends with exactly one mirror
\* row of its ext_id, holding the local data, and with the record's change
\* counter at 0.
NeverSynced(d, e) ==
    /\ e \in DOMAIN d.local
    /\ d.local[e].sync_status = SyncStatusNew
    /\ ~\E r \in d.mirror : r.ext_id = e

C17_FirstUploadFillsMirror ==
    (last.op = "do_sync" /\ last.items = <<>>) =>
        \A e \in ExtIds :
            (NeverSynced(last.before, e)
                /\ last.before.local[e].sync_change_counter > 0) =>
               /\ Cardinality({r \in mirror : r.ext_id = e}) = 1
               /\ \A r \in mirror :
                     r.ext_id = e => r.data = last.before.local[e].data
               /\ e \in DOMAIN local
               /\ local[e].data = last.before.local[e].data
               /\ local[e].sync_change_counter = 0

C17_Witness ==
    /\ last.op = "do_sync"
    /\ last.items = <<>>
    /\ last.before.staging = <<>>
    /\ \E e \in ExtIds :
          /\ NeverSynced(last.before, e)
          /\ last.before.local[e].sync_change_counter = 2
          /\ last.before.local[e].data = to_string(ValueObject(m_k1a_k2a))
          /\ \E r \in mirror : r.ext_id = e /\ r.data = local[e].data
          /\ local[e].sync_change_counter = 0

\* C18: when a full pass reconciles a never-synced local record with data
\* and one incoming record with data of the same ext_id, the planner takes
\* the 2-way merge, and after the pass the mirror has exactly one row of the
\* ext_id, holding the merged data, and the local record holds the same data.
IncomingOf(bsos, e) == {i \in DOMAIN bsos : bsos[i].ext_id = e}

\* the data the 2-way merge decides on
MergedData(inc, loc) ==
    LET a == merge(inc, loc, None)
    IN IF a.action = "Same" THEN loc ELSE a.data

Reconciled(e, i) ==
    /\ last.op = "do_sync"
    /\ IncomingOf(last.items, e) = {i}
    /\ \A j \in DOMAIN last.items : last.items[j].guid = last.items[i].guid => j = i
    /\ json_map_from_row(last.items[i].data).some
    /\ NeverSynced(last.before, e)
    /\ ~\E r \in last.before.mirror : r.guid = last.items[i].guid
    /\ json_map_from_row(last.before.local[e].data).some

C18_MergedDataEverywhere ==
    \A e \in ExtIds : \A i \in DOMAIN last.items :
        Reconciled(e, i) =>
            LET inc == json_map_from_row(last.items[i].data).v
                loc == json_map_from_row(last.before.local[e].data).v
                merged == to_string(ValueObject(MergedData(inc, loc)))
            IN /\ \E j \in DOMAIN actions :
                     /\ actions[j].item.ext_id = e
                     /\ actions[j].action = merge(inc, loc, None)
               /\ Cardinality({r \in mirror : r.ext_id = e}) = 1
               /\ \A r \in mirror : r.ext_id = e => r.data = merged
               /\ e \in DOMAIN local
               /\ local[e].data = merged

\* C19: after apply_actions commits DeleteRemotely for an existing local
\* record, the record has no data, its sync_status is New, and the next
\* get_outgoing returns it with a deletion payload, whatever its change
\* counter was before the action (0 included).
C19_DeleteRemotelyIsUploaded ==
    CommittedApply =>
        \A i \in DOMAIN last.items :
            LET e == last.items[i].item.ext_id
            IN (/\ last.items[i].action = DeleteRemotely
                /\ e \in DOMAIN last.before.local
                /\ \A j \in DOMAIN last.items :
                      j < i => last.items[j].action # DeleteLocally
                /\ ~TargetedLater(last.items, i, e)) =>
                  /\ e \in DOMAIN local
                  /\ local[e].data = NULL
                  /\ local[e].sync_status = SyncStatusNew
                  /\ \A rnd \in RandomChoices :
                        \E j \in DOMAIN get_outgoing(db, rnd) :
                            /\ get_outgoing(db, rnd)[j].state.ext_id = e
                            /\ get_outgoing(db, rnd)[j].payload.deleted

\* C20: apply_actions with DeleteLocally removes the local record of the
\* item's ext_id and changes no other local record, with Same it changes
\* nothing, and whatever the actions it leaves the mirror and the staging
\* area as they were.
Targeted(items, e) == \E i \in DOMAIN items : items[i].item.ext_id = e

C20_DeleteLocallyAndSame ==
    CommittedApply =>
        /\ mirror = last.before.mirror
        /\ staging = last.before.staging
        /\ \A e \in ExtIds :
              ~Targeted(last.items, e) =>
                 /\ e \in DOMAIN local <=> e \in DOMAIN last.before.local
                 /\ e \in DOMAIN local => local[e] = last.before.local[e]
        /\ \A i \in DOMAIN last.items :
              (/\ last.items[i].action = DeleteLocally
               /\ ~TargetedLater(last.items, i, last.items[i].item.ext_id)) =>
                    last.items[i].item.ext_id \notin DOMAIN local
        /\ (\A i \in DOMAIN last.items : last.items[i].action = Same) =>
              local = last.before.local

C20_Witness ==
    /\ CommittedApply
    /\ staging # <<>>
    /\ mirror # {}
    /\ \E i \in DOMAIN last.items :
          /\ last.items[i].action = DeleteLocally
          /\ last.items[i].item.ext_id \in DOMAIN last.before.local
          /\ last.items[i].item.ext_id \notin DOMAIN local
    /\ \E e \in DOMAIN local : ~Targeted(last.items, e)

\* a list of Same only, for two existing records
C20_SameOnly ==
    /\ CommittedApply
    /\ \A i \in DOMAIN last.items : last.items[i].action = Same
    /\ DOMAIN local = ExtIds

\* C21: when a pass is cancelled at a per-row check of stage_incoming,
\* apply_actions or record_uploaded and the whole pass is run again with the
\* same batch and no local mutation in between, the local data and the
\* mirror end as after one uninterrupted pass from the same tables.
\* the data of an extension: a record without a row has none
DataOf(lo, e) == IF e \in DOMAIN lo THEN lo[e].data ELSE NULL

SameLocalData(lo1, lo2) ==
    /\ DOMAIN lo1 = DOMAIN lo2
    /\ \A e \in DOMAIN lo1 : lo1[e].data = lo2[e].data

C21_RerunEqualsSinglePass ==
    last.op = "retried_sync" =>
        \E rnd \in do_sync_choices(do_sync_incoming(last.before, last.items).db) :
            LET single == do_sync(last.before, last.items, rnd).db
            IN /\ \A e \in ExtIds : DataOf(local, e) = DataOf(single.local, e)
               /\ mirror = single.mirror

C21_Witness ==
    /\ last.op = "retried_sync"
    /\ last.step = "record_uploaded"
    /\ last.before.mirror # {}
    /\ mirror # last.before.mirror
    /\ \E j \in DOMAIN actions : actions[j].action.action = "Merge"
    /\ \E e \in DOMAIN local : local[e].data # last.before.local[e].data

\* the rows themselves, which the claim is not about
C21_SameLocalRows ==
    last.op = "retried_sync" =>
        \E rnd \in do_sync_choices(do_sync_incoming(last.before, last.items).db) :
            SameLocalData(local, do_sync(last.before, last.items, rnd).db.local)

C22_TwoStaged ==
    /\ last.op = "record_uploaded"
    /\ last.result = "Ok"
    /\ \E s, t \in Rows(last.before.staging) :
          s.ext_id = t.ext_id /\ s.guid # t.guid
    /\ mirror # {}

\* C23: a staged, mirror or local row whose data is not valid JSON, or is
\* JSON of another type than object, is classified by get_incoming as if
\* the data were absent (same variant, the field absent), and get_incoming
\* succeeds: it returns a state for every staged row.
IsJsonObject(col) == col.text = "json" /\ col.value.kind = "Object"
AbsentUnlessObject(col) == IF IsJsonObject(col) THEN col ELSE NULL

Nullified(d) ==
    [local |-> [e \in DOMAIN d.local |->
                    [d.local[e] EXCEPT !.data = AbsentUnlessObject(@)]],
     mirror |-> {[r EXCEPT !.data = AbsentUnlessObject(@)] : r \in d.mirror},
     staging |-> [i \in DOMAIN d.staging |->
                    [d.staging[i] EXCEPT !.data = AbsentUnlessObject(@)]]]

C23_MalformedIsAbsent ==
    pc = "fetched" =>
        /\ Len(incoming) = Len(staging)
        /\ incoming = get_incoming(Nullified(db))
        /\ \A i \in DOMAIN incoming :
              /\ ~IsJsonObject(staging[i].data) => ~incoming[i].state.incoming.some
              /\ incoming[i].state.variant \in
                    {"IncomingOnly", "LocalOnly", "NotLocal", "Everywhere"}

C23_Witness ==
    /\ pc = "fetched"
    /\ \E i \in DOMAIN incoming :
          /\ staging[i].data = NotJson
          /\ \E r \in mirror : r.guid = staging[i].guid
                                  /\ r.data = to_string(ValueString("a"))
          /\ staging[i].ext_id \in DOMAIN local
          /\ local[staging[i].ext_id].data = NotJson
          /\ incoming[i].state = Everywhere(None, None, None)

Illegal(t) ==
    \/ t.kind # "num"
    \/ t.n < 0
    \/ t.n * MillisPerSecond >= i64_max_value * TsUnits

C25_TimestampNeverFails ==
    stamp.some =>
        /\ stamp.v \in 0..i64_max_value
        /\ Illegal(ts) => stamp.v = 0
        /\ ~Illegal(ts) =>
              /\ 2 * (stamp.v * TsUnits - ts.n * MillisPerSecond) <= TsUnits
              /\ 2 * (ts.n * MillisPerSecond - stamp.v * TsUnits) <= TsUnits

C25_Witness ==
    /\ stamp.some
    /\ ts.kind = "num"
    /\ ts.n = 25
    /\ stamp.v = 3

\* the other cases of the claim
C25_Cases ==
    /\ stamp.some
    /\ stamp.v = 0
    /\ \/ ts = NaN
       \/ ts = PosInf
       \/ ts = Num(0 - 10)
       \/ ts = Num((i64_max_as_f64 * TsUnits) \div MillisPerSecond)

\* C26: when a full pass receives one incoming record with data for an
\* ext_id that has no local record (the IncomingOnly and NotLocal states),
\* the pass ends with a local record of the ext_id holding the incoming data.
ArrivesWithoutLocal(e, i) ==
    /\ last.op = "do_sync"
    /\ IncomingOf(last.items, e) = {i}
    /\ \A j \in DOMAIN last.items :
          last.items[j].guid = last.items[i].guid => j = i
    /\ json_map_from_row(last.items[i].data).some
    /\ e \notin DOMAIN last.before.local
    /\ \A j \in DOMAIN last.before.staging :
          last.before.staging[j].ext_id # e

C26_TakeRemoteCreatesLocal ==
    \A e \in ExtIds : \A i \in DOMAIN last.items :
        ArrivesWithoutLocal(e, i) =>
            /\ \E j \in DOMAIN actions :
                  /\ actions[j].item.ext_id = e
                  /\ actions[j].action.action = "TakeRemote"
            /\ e \in DOMAIN local
            /\ json_map_from_row(local[e].data)
                  = json_map_from_row(last.items[i].data)

\* the part of C26 that the pass does: the planner answers TakeRemote
C26_TakeRemotePlanned ==
    \A e \in ExtIds : \A i \in DOMAIN last.items :
        ArrivesWithoutLocal(e, i) =>
            \E j \in DOMAIN actions :
                /\ actions[j].item.ext_id = e
                /\ actions[j].action.action = "TakeRemote"

\* C27: a call of the key/value API between get_incoming and apply_actions
\* of a pass is not lost: after the pass the data it stored is the local
\* data with a change counter above 0, or it is in the uploaded payload of
\* its ext_id.
MutationKept(e, data) ==
    /\ e \in DOMAIN local
    /\ local[e].data = data
    /\ local[e].sync_change_counter > 0

MutationUploaded(e, data) ==
    \E j \in DOMAIN outgoing :
        /\ outgoing[j].payload.ext_id = e
        /\ outgoing[j].payload.data = data

C27_RacingMutationNotLost ==
    last.op = "raced_sync" =>
        \/ MutationKept(last.mutated.ext_id, last.mutated.data)
        \/ MutationUploaded(last.mutated.ext_id, last.mutated.data)

\* C27 where nothing was planned for the ext_id of the call: the data is
\* uploaded by the same pass
C27_UntargetedMutationUploaded ==
    (/\ last.op = "raced_sync"
     /\ \A j \in DOMAIN actions :
           actions[j].item.ext_id # last.mutated.ext_id) =>
        MutationUploaded(last.mutated.ext_id, last.mutated.data)

\* C28: after a full pass with no call of the key/value API inside it,
\* every local record has change counter 0 and a get_outgoing called right
\* after returns nothing, whatever the tables and the batch were, merged
\* records included.
PassMerged ==
    \E j \in DOMAIN actions : actions[j].action.action = "Merge"

C28_NothingPendingAfterPass ==
    last.op = "do_sync" =>
        /\ \A e \in DOMAIN local : local[e].sync_change_counter = 0
        /\ \A rnd \in do_sync_choices(db) : get_outgoing(db, rnd) = <<>>

C28_Witness ==
    /\ last.op = "do_sync"
    /\ PassMerged
    /\ outgoing # <<>>
    /\ \E e \in DOMAIN last.before.local :
          last.before.local[e].sync_change_counter = 2
    /\ \A e \in DOMAIN local : local[e].sync_change_counter = 0

\* C29: a second full pass with an empty batch, run right after a pass
\* with no call of the key/value API in between, plans no action, uploads
\* nothing, and leaves the local records, the mirror and the staging area
\* (which is empty) as they were.
C29_SecondPassIsNoOp ==
    last.op = "do_sync" =>
        /\ staging = <<>>
        /\ \A rnd \in do_sync_choices(do_sync_incoming(db, <<>>).db) :
              LET second == do_sync(db, <<>>, rnd)
              IN /\ second.actions = <<>>
                 /\ second.outgoing = <<>>
                 /\ second.db = db

C29_Witness ==
    /\ last.op = "do_sync"
    /\ last.items # <<>>
    /\ actions # <<>>
    /\ outgoing # <<>>
    /\ local # <<>>
    /\ mirror # {}
    /\ do_sync_choices(do_sync_incoming(db, <<>>).db) # {}

====
